---- MODULE Spec2Model ----
(***************************************************************************)
(* duckrail: the Analyzer session (src/main.py), its static configuration  *)
(* (src/config.py) and the TableMaker result-table builder (src/writer.py).*)
(*                                                                         *)
(* Three specifications share the module:                                  *)
(*   Spec       an Analyzer session: construction, table creation in local *)
(*              mode, report calls (directly or through analyze()).        *)
(*   SpecTable  a TableMaker driven by arbitrary with_column / with_rows / *)
(*              build calls.                                               *)
(*   SpecRank   the top-n-per-month query evaluated over arbitrary         *)
(*              services_per_month contents.                               *)
(* A query text is modelled as the f-string that builds it: a sequence of  *)
(* segments, each a literal piece of SQL or an interpolated value tagged   *)
(* with where the value comes from.                                        *)
(***************************************************************************)
EXTENDS Integers, Sequences, FiniteSets, TLC

VARIABLES
    mode,       \* Analyzer.mode
    pc,         \* position of the session: new / loading / ready / done / failed
    lpc,        \* number of create_tbl calls load_local_data has made
    apc,        \* position inside analyze(): 0 = not running, 1..6 = next step
    con,        \* state of the engine connection Analyzer.con
    created,    \* engine catalog: tables created so far, in creation order
    issued,     \* tables for which a CREATE TABLE statement was sent, in order
    call,       \* the last method call: query sent, engine result, outcome
    tm,         \* the TableMaker under test (SpecTable)
    tlast,      \* the last TableMaker call: operation, rows before, outcome
    returned,   \* the table as it was when build() first returned it
    spm,        \* contents of services_per_month (SpecRank)
    top         \* the last top-n query evaluated: arguments and result rows

sessVars  == <<mode, pc, lpc, apc, con, created, issued, call>>
tableVars == <<tm, tlast, returned>>
rankVars  == <<spm, top>>
vars      == <<mode, pc, lpc, apc, con, created, issued, call,
               tm, tlast, returned, spm, top>>

----------------------------------------------------------------------------
(* Bounds of the model.                                                    *)

MaxCols   == 2      \* columns declared on one TableMaker
MaxArity  == 2      \* cells in one input row
MaxRows   == 2      \* rows in one with_rows call / one engine result
MaxStored == 3      \* rows a TableMaker holds
MaxBuilds == 2      \* build() calls on one TableMaker
MaxArg    == 2      \* largest integer argument a caller passes to a report
MaxStation == 3     \* stations in services_per_month
MaxMonth  == 1      \* months in services_per_month
MaxCount  == 2      \* largest num_services of one (month, station)

----------------------------------------------------------------------------
(* Generic helpers.                                                        *)

Range(s) == {s[i] : i \in 1..Len(s)}

RECURSIVE SeqsUpTo(_, _)
SeqsUpTo(S, n) ==
    IF n = 0 THEN {<<>>}
    ELSE LET shorter == SeqsUpTo(S, n - 1)
         IN  shorter \cup {Append(s, x) : s \in {t \in shorter : Len(t) = n - 1}, x \in S}

----------------------------------------------------------------------------
(* src/writer.py: TableMaker.                                              *)

\* str(data) for a cell value
str(data) == ToString(data)

\* rich.table.Table(title=title), as far as the builder drives it: the
\* columns added and, per add_row call, the cells handed over.
Table(title) == [title |-> title, columns |-> <<>>, rows |-> <<>>]

NoTable == [title |-> "", columns |-> <<"<none>">>, rows |-> <<>>]

\* TableMaker.__init__
TableMaker(title) == [table |-> Table(title), cols |-> <<>>, rows |-> <<>>]

NoTM == [table |-> NoTable, cols |-> <<>>, rows |-> <<>>]

\* TableMaker.with_column: self.cols.append((name,))
with_column(self, name) == [self EXCEPT !.cols = Append(@, <<name>>)]

\* The generator expression (str(data) for data in row): it yields its cells
\* once, when build() unpacks it, and nothing afterwards.
Generator(row) == [src |-> row, done |-> FALSE]

Cells(gen) == IF gen.done THEN <<>> ELSE [i \in 1..Len(gen.src) |-> str(gen.src[i])]

\* TableMaker.with_rows: the loop appends row by row and raises at the first
\* row whose length differs from the number of columns declared so far.
RECURSIVE with_rows(_, _)
with_rows(self, rows) ==
    IF rows = <<>> THEN [self |-> self, exc |-> "none"]
    ELSE IF Len(Head(rows)) # Len(self.cols)
         THEN [self |-> self, exc |-> "Mismatched column count"]
         ELSE with_rows([self EXCEPT !.rows = Append(@, Generator(Head(rows)))],
                        Tail(rows))

\* TableMaker.build: add every column, then every row, to self.table and
\* return self.table (the same object on every call).
build(self) ==
    [self EXCEPT
        !.table = [@ EXCEPT
            !.columns = @ \o [i \in 1..Len(self.cols) |-> self.cols[i][1]],
            !.rows    = @ \o [i \in 1..Len(self.rows) |-> Cells(self.rows[i])]],
        !.rows  = [i \in 1..Len(self.rows) |-> [self.rows[i] EXCEPT !.done = TRUE]]]

----------------------------------------------------------------------------
(* SpecTable: one TableMaker, any sequence of calls.                       *)

ColNames  == {"a", "b"}
CellVals  == {1, 22}
InputRows == SeqsUpTo(SeqsUpTo(CellVals, MaxArity), MaxRows)

NoTMCall == [op |-> "none", before |-> <<>>, exc |-> "none", builds |-> 0]

IdleTable == tm = NoTM /\ tlast = NoTMCall /\ returned = NoTable

InitTable == tm = TableMaker("t") /\ tlast = NoTMCall /\ returned = NoTable

TM_with_column ==
    /\ Len(tm.cols) < MaxCols
    /\ \E name \in ColNames :
          tm' = with_column(tm, name)
    /\ tlast' = [tlast EXCEPT !.op = "with_column", !.before = tm.rows, !.exc = "none"]
    /\ UNCHANGED returned

TM_with_rows ==
    /\ \E rows \in InputRows :
          /\ Len(tm.rows) + Len(rows) <= MaxStored
          /\ LET r == with_rows(tm, rows)
             IN  /\ tm' = r.self
                 /\ tlast' = [tlast EXCEPT !.op = "with_rows", !.before = tm.rows,
                                           !.exc = r.exc]
    /\ UNCHANGED returned

TM_build ==
    /\ tlast.builds < MaxBuilds
    /\ tm' = build(tm)
    /\ tlast' = [op |-> "build", before |-> tm.rows, exc |-> "none",
                 builds |-> tlast.builds + 1]
    /\ returned' = IF tlast.builds = 0 THEN build(tm).table ELSE returned

----------------------------------------------------------------------------
(* src/config.py.                                                          *)

SVCS_CSV_FILE == "data/services-2023.csv.gz"
SVCS_CSV_URL  == "https://blobs.duckdb.org/nl-railway/services-2023.csv.gz"
STAT_CSV_FILE == "data/stations-2022-01.csv"
STAT_CSV_URL  == "https://blobs.duckdb.org/data/stations-2022-01.csv"
DIST_CSV_FILE == "data/tariff-distances-2022-01.csv"
DIST_CSV_URL  == "https://blobs.duckdb.org/data/tariff-distances-2022-01.csv"

SVCS_TBL_NAME          == "services"
SVCS_BY_MONTH_TBL_NAME == "services_per_month"
STAT_TBL_NAME          == "stations"
DIST_TBL_NAME          == "distances"
DIST_LNG_TBL_NAME      == "distances_long"

----------------------------------------------------------------------------
(* Query texts: the segments of an f-string.                               *)

\* a literal piece of the f-string
Sql(s) == [o |-> "sql", s |-> s]
\* an interpolated table name taken from config.py
Ident(s) == [o |-> "config", s |-> s]
\* an interpolated file path or URL, formatted with !r
FileRef(s) == [o |-> "file", s |-> "'" \o s \o "'"]
\* an interpolated argument of the caller
Arg(s) == [o |-> "arg", s |-> s]

----------------------------------------------------------------------------
(* src/main.py: Analyzer.                                                  *)

Modes == {"local", "remote"}

\* Analyzer.is_remote
is_remote(m) == m = "remote"

\* Analyzer.__init__: the resolved sources
services_file(m)  == IF m = "local" THEN SVCS_CSV_FILE ELSE SVCS_CSV_URL
stations_file(m)  == IF m = "local" THEN STAT_CSV_FILE ELSE STAT_CSV_URL
distances_file(m) == IF m = "local" THEN DIST_CSV_FILE ELSE DIST_CSV_URL

\* Analyzer.__init__: self.files, in insertion order
files(m) == <<services_file(m), stations_file(m), distances_file(m)>>

\* Analyzer.__init__: self.subqueries
subqueries(m) ==
    (SVCS_BY_MONTH_TBL_NAME :>
        << Sql("SELECT month(\"Service:Date\") AS month, \"Stop:station name\" AS station, count(*) AS num_services FROM"),
           FileRef(services_file(m)),
           Sql("GROUP BY ALL") >>)
 @@ (DIST_LNG_TBL_NAME :>
        << Sql("UNPIVOT"),
           Ident(DIST_TBL_NAME),
           Sql("ON COLUMNS (* EXCLUDE station) INTO NAME other_station VALUE distance") >>)
 @@ (SVCS_TBL_NAME :> << Sql("FROM"), FileRef(services_file(m)) >>)
 @@ (STAT_TBL_NAME :> << Sql("FROM"), FileRef(stations_file(m)) >>)
 @@ (DIST_TBL_NAME :>
        << Sql("FROM read_csv("), FileRef(distances_file(m)), Sql(", nullstr='XXX')") >>)

\* the value add_cte / create_tbl work with when they raise
NoSubquery == << [o |-> "raise", s |-> "No subquery defined"] >>

\* Analyzer.create_tbl: the statement sent to the engine
create_tbl(m, tbl) ==
    IF tbl \notin DOMAIN subqueries(m) THEN NoSubquery
    ELSE <<Sql("CREATE TABLE"), Ident(tbl), Sql("AS (")>> \o subqueries(m)[tbl] \o <<Sql(")")>>

\* load_local_data with distances_long created before distances
load_local_data_derivedFirst ==
    << SVCS_TBL_NAME, SVCS_BY_MONTH_TBL_NAME, STAT_TBL_NAME, DIST_LNG_TBL_NAME,
       DIST_TBL_NAME >>

\* Analyzer.load_local_data: the create_tbl calls, in order
load_local_data ==
    << SVCS_TBL_NAME, SVCS_BY_MONTH_TBL_NAME, STAT_TBL_NAME, DIST_TBL_NAME,
       DIST_LNG_TBL_NAME >>

\* Analyzer.add_cte
add_cte(m, qry, tbl) ==
    IF tbl \notin DOMAIN subqueries(m) THEN NoSubquery
    ELSE <<Sql("WITH"), Ident(tbl), Sql("AS (")>> \o subqueries(m)[tbl] \o <<Sql(")")>> \o qry

\* Analyzer.get_tbl_count: the query text
tbl_count_qry(tbl_name) ==
    << Sql("SELECT format('{:,}', count(*)) FROM"), FileRef(tbl_name), Sql(";") >>

\* Analyzer.get_busiest_by_month: the query text
busiest_body ==
    << Sql("SELECT month, arg_max(station, num_services) AS station, max(num_services) AS num_services FROM"),
       Ident(SVCS_BY_MONTH_TBL_NAME),
       Sql("WHERE month <= $1 GROUP BY ALL;") >>

busiest_qry(m) ==
    IF is_remote(m) THEN add_cte(m, busiest_body, SVCS_BY_MONTH_TBL_NAME) ELSE busiest_body

\* Analyzer.get_top_n_stations_in_period: the query text
top_n_body ==
    << Sql("SELECT month, month_name, array_agg(station) AS top_stations FROM ( SELECT month, strftime(make_date(2023, month, 1), '%B') AS month_name, rank() OVER (PARTITION BY month ORDER BY num_services DESC) AS rank, station, num_services FROM"),
       Ident(SVCS_BY_MONTH_TBL_NAME),
       Sql("WHERE month BETWEEN $1 AND $2 ) WHERE rank <= $3 GROUP BY ALL ORDER BY month;") >>

top_n_qry(m) ==
    IF is_remote(m) THEN add_cte(m, top_n_body, SVCS_BY_MONTH_TBL_NAME) ELSE top_n_body

\* Analyzer.get_stations: the query text
stations_body ==
    << Sql("SELECT id, name_short, name_long, country, printf('%.2f', geo_lat) AS latitude, printf('%.2f', geo_lng) AS longitude FROM"),
       Ident(STAT_TBL_NAME),
       Sql("LIMIT $1") >>

stations_qry(m) ==
    IF is_remote(m) THEN add_cte(m, stations_body, STAT_TBL_NAME) ELSE stations_body

\* Analyzer.get_distances: the query text
distances_body ==
    << Sql("SELECT station, other_station, distance FROM"),
       Ident(DIST_LNG_TBL_NAME),
       Sql("LIMIT $1") >>

distances_qry(m) ==
    IF is_remote(m) THEN add_cte(m, distances_body, DIST_LNG_TBL_NAME) ELSE distances_body

\* Analyzer.get_station_pairs: the query text (the same in both modes)
station_pairs_qry(m, order) ==
    << Sql("SELECT s1.name_long AS station1, s2.name_long AS station2,"),
       Ident(DIST_LNG_TBL_NAME), Sql(".distance FROM"),
       Ident(DIST_LNG_TBL_NAME), Sql("JOIN"),
       Ident(STAT_TBL_NAME), Sql("s1 ON"),
       Ident(DIST_LNG_TBL_NAME), Sql(".station = s1.code JOIN"),
       Ident(STAT_TBL_NAME), Sql("s2 ON"),
       Ident(DIST_LNG_TBL_NAME),
       Sql(".other_station = s2.code WHERE s1.country = 'NL' AND s2.country = 'NL' AND station < other_station ORDER BY distance"),
       Arg(order),
       Sql("LIMIT $1") >>

----------------------------------------------------------------------------
(* The engine (duckdb), as far as the session depends on it: a statement   *)
(* that names a table which neither exists nor is defined by a CTE of the  *)
(* statement fails; any statement may fail (missing file, network); a      *)
(* query that runs returns some rows of the width of its select list.      *)

LogicalTables == DOMAIN subqueries("local")

\* positions of a statement where a table name is being defined
DefPos(text) ==
    {i + 1 : i \in {j \in 1..(Len(text) - 1) : text[j] \in {Sql("WITH"), Sql("CREATE TABLE")}}}

\* tables a statement defines with a WITH prelude
CteDefined(text) ==
    {text[i + 1].s : i \in {j \in 1..(Len(text) - 1) : text[j] = Sql("WITH")}}

\* tables a statement reads by name
Refs(text) ==
    {text[i].s : i \in {j \in 1..Len(text) :
                          /\ j \notin DefPos(text)
                          /\ text[j].o = "config"
                          /\ text[j].s \in LogicalTables}}

Unresolved(text, catalog) == Refs(text) \ (catalog \cup CteDefined(text))

EngineError == [err |-> TRUE, rows |-> <<>>]

ResultRows(k, width) == [i \in 1..k |-> [j \in 1..width |-> 1]]

Engine(text, catalog, width) ==
    {EngineError} \cup
    IF Unresolved(text, catalog) = {}
    THEN {[err |-> FALSE, rows |-> ResultRows(k, width)] : k \in 0..MaxRows}
    ELSE {}

----------------------------------------------------------------------------
(* src/main.py: the report methods.                                        *)

NoCall ==
    [method |-> "none", text |-> <<>>, params |-> <<>>, answered |-> FALSE,
     rows |-> <<>>, exc |-> "none", tm |-> NoTM, ret |-> NoTable]

RECURSIVE with_columns(_, _)
with_columns(self, names) ==
    IF names = <<>> THEN self
    ELSE with_columns(with_column(self, Head(names)), Tail(names))

\* the report tail without the check for an empty result
execute_report_noEmptyCheck(method, qry, params, res, title, cols) ==
    LET base == [NoCall EXCEPT !.method = method, !.text = qry, !.params = params]
    IN  IF qry = NoSubquery
        THEN [base EXCEPT !.text = <<>>, !.params = <<>>, !.exc = "No subquery defined"]
        ELSE IF res.err
        THEN [base EXCEPT !.exc = "EngineError"]
        ELSE LET r == with_rows(with_columns(TableMaker(title), cols), res.rows)
             IN  IF r.exc # "none"
                 THEN [base EXCEPT !.answered = TRUE, !.rows = res.rows,
                                   !.exc = r.exc, !.tm = r.self]
                 ELSE [base EXCEPT !.answered = TRUE, !.rows = res.rows,
                                   !.tm = build(r.self), !.ret = build(r.self).table]

\* The tail every report method shares: execute the query with its bound
\* parameters, raise ErrNoResults on an empty result, otherwise build the
\* table with TableMaker.
execute_report(method, qry, params, res, title, cols) ==
    LET base == [NoCall EXCEPT !.method = method, !.text = qry, !.params = params]
    IN  IF qry = NoSubquery
        THEN [base EXCEPT !.text = <<>>, !.params = <<>>, !.exc = "No subquery defined"]
        ELSE IF res.err
        THEN [base EXCEPT !.exc = "EngineError"]
        ELSE IF res.rows = <<>>
        THEN [base EXCEPT !.answered = TRUE, !.exc = "ErrNoResults"]
        ELSE LET r == with_rows(with_columns(TableMaker(title), cols), res.rows)
             IN  IF r.exc # "none"
                 THEN [base EXCEPT !.answered = TRUE, !.rows = res.rows,
                                   !.exc = r.exc, !.tm = r.self]
                 ELSE [base EXCEPT !.answered = TRUE, !.rows = res.rows,
                                   !.tm = build(r.self), !.ret = build(r.self).table]

\* Analyzer.get_busiest_by_month
get_busiest_by_month(month_cutoff) ==
    \E res \in Engine(busiest_qry(mode), Range(created), 3) :
        call' = execute_report("get_busiest_by_month", busiest_qry(mode),
                               <<month_cutoff>>, res, "Busiest Station by Month",
                               <<"month", "station", "num_services">>)

\* Analyzer.get_top_n_stations_in_period
get_top_n_stations_in_period(n, start, end) ==
    \E res \in Engine(top_n_qry(mode), Range(created), 3) :
        call' = execute_report("get_top_n_stations_in_period", top_n_qry(mode),
                               <<start, end, n>>, res,
                               "Top " \o ToString(n) \o " Stations in Months "
                                      \o ToString(start) \o "-" \o ToString(end),
                               <<"month", "month_name", "top_stations">>)

\* Analyzer.get_stations
get_stations(limit) ==
    \E res \in Engine(stations_qry(mode), Range(created), 6) :
        call' = execute_report("get_stations", stations_qry(mode), <<limit>>, res,
                               "Stations",
                               <<"id", "name_short", "name_long", "country",
                                 "latitude", "longitude">>)

\* Analyzer.get_distances
get_distances(limit) ==
    \E res \in Engine(distances_qry(mode), Range(created), 3) :
        call' = execute_report("get_distances", distances_qry(mode), <<limit>>, res,
                               "Station Pair Distances",
                               <<"station", "other_station", "distance">>)

\* Analyzer.get_station_pairs
get_station_pairs(order, limit) ==
    \E res \in Engine(station_pairs_qry(mode, order), Range(created), 3) :
        call' = execute_report("get_station_pairs", station_pairs_qry(mode, order),
                               <<limit>>, res,
                               (IF order = "DESC" THEN "Furthest" ELSE "Shortest")
                                   \o " Station Distances",
                               <<"station1", "station2", "distance">>)

\* Analyzer.get_tbl_count: count(*) without GROUP BY answers with one row
get_tbl_count(tbl_name, res) ==
    LET base == [NoCall EXCEPT !.method = "get_tbl_count",
                               !.text = tbl_count_qry(tbl_name)]
    IN  IF res.err THEN [base EXCEPT !.exc = "EngineError"]
        ELSE IF res.rows = <<>> THEN [base EXCEPT !.answered = TRUE, !.exc = "ErrNoResults"]
        ELSE [base EXCEPT !.answered = TRUE, !.rows = res.rows]

\* Analyzer.show_count: get_tbl_count for each file in turn; the first
\* failure ends the loop.  failAt = 0: no call fails.
show_count(failAt) ==
    LET last == IF failAt = 0 THEN Len(files(mode)) ELSE failAt
        res  == IF failAt = 0 THEN [err |-> FALSE, rows |-> ResultRows(1, 1)]
                ELSE EngineError
    IN  call' = get_tbl_count(files(mode)[last], res)

----------------------------------------------------------------------------
(* Spec: an Analyzer session.                                              *)

IntArgs == 0..MaxArg
Orders  == {"ASC", "DESC", "DESC; DROP TABLE stations; --"}

IdleSession ==
    /\ mode = "none" /\ pc = "idle" /\ lpc = 0 /\ apc = 0 /\ con = "none"
    /\ created = <<>> /\ issued = <<>> /\ call = NoCall

InitSession ==
    /\ mode = "none" /\ pc = "new" /\ lpc = 0 /\ apc = 0 /\ con = "none"
    /\ created = <<>> /\ issued = <<>> /\ call = NoCall

\* Analyzer.__init__ up to the call of load_local_data
Construct ==
    /\ pc = "new"
    /\ \E m \in Modes :
          /\ mode' = m
          /\ pc' = IF m = "local" THEN "loading" ELSE "ready"
    /\ con' = "open"
    /\ UNCHANGED <<lpc, apc, created, issued, call>>

\* The next create_tbl call of load_local_data.  The engine refuses a
\* CREATE TABLE whose defining query names a missing table, or whose table
\* exists already; the exception ends the construction.
CreateTbl ==
    /\ pc = "loading"
    /\ lpc < Len(load_local_data)
    /\ LET tbl  == load_local_data[lpc + 1]
           stmt == create_tbl(mode, tbl)
       IN  IF stmt = NoSubquery
           THEN /\ call' = [NoCall EXCEPT !.method = "create_tbl",
                                          !.exc = "No subquery defined"]
                /\ pc' = "failed"
                /\ UNCHANGED <<lpc, created, issued>>
           ELSE /\ issued' = Append(issued, tbl)
                /\ \E ok \in BOOLEAN :
                      /\ ok => /\ Unresolved(stmt, Range(created)) = {}
                               /\ tbl \notin Range(created)
                      /\ call' = [NoCall EXCEPT !.method = "create_tbl", !.text = stmt,
                                                !.exc = IF ok THEN "none" ELSE "EngineError"]
                      /\ created' = IF ok THEN Append(created, tbl) ELSE created
                      /\ lpc' = IF ok THEN lpc + 1 ELSE lpc
                      /\ pc' = IF ~ok THEN "failed"
                               ELSE IF lpc + 1 = Len(load_local_data) THEN "ready"
                               ELSE "loading"
    /\ UNCHANGED <<mode, apc, con>>

\* A report method called on the constructed Analyzer by its user; an
\* exception goes to the caller and ends the session.
Direct(report) ==
    /\ pc = "ready"
    /\ apc = 0
    /\ report
    /\ pc' = IF call'.exc = "none" THEN "ready" ELSE "failed"
    /\ UNCHANGED <<mode, lpc, apc, con, created, issued>>

CallBusiest == \E c \in IntArgs : Direct(get_busiest_by_month(c))

CallTopN == \E n \in IntArgs, start \in IntArgs, end \in IntArgs :
                Direct(get_top_n_stations_in_period(n, start, end))

CallStations == \E limit \in IntArgs : Direct(get_stations(limit))

CallDistances == \E limit \in IntArgs : Direct(get_distances(limit))

CallStationPairs == \E order \in Orders, limit \in IntArgs :
                        Direct(get_station_pairs(order, limit))

\* One step of Analyzer.analyze; step 5 is the last.
AnalyzeStep(k, report) ==
    /\ pc = "ready"
    /\ apc = k
    /\ report
    /\ apc' = IF call'.exc = "none" THEN k + 1 ELSE k
    /\ pc' = IF call'.exc # "none" THEN "failed"
             ELSE IF k = 5 THEN "done" ELSE "ready"
    /\ UNCHANGED <<mode, lpc, con, created, issued>>

\* Analyzer.analyze
analyze ==
    \/ AnalyzeStep(0, \E failAt \in 0..Len(files(mode)) : show_count(failAt))
    \/ AnalyzeStep(1, get_stations(5))
    \/ AnalyzeStep(2, get_distances(5))
    \/ AnalyzeStep(3, get_busiest_by_month(6))
    \/ AnalyzeStep(4, get_top_n_stations_in_period(2, 6, 8))
    \/ AnalyzeStep(5, get_station_pairs("DESC", 3))

----------------------------------------------------------------------------
(* SpecRank: the query of get_top_n_stations_in_period, evaluated.         *)

Months   == 1..MaxMonth
Stations == 1..MaxStation

\* services_per_month: count(*) GROUP BY month, station.  A (month, station)
\* without services has no row; it is the count 0 here.
SpmRows(s) ==
    {[month |-> p[1], station |-> p[2], num_services |-> s[p[1]][p[2]]] :
        p \in {q \in Months \X Stations : s[q[1]][q[2]] > 0}}

\* ORDER BY num_services DESC (the order among equals is the engine's)
RECURSIVE OrderDesc(_)
OrderDesc(S) ==
    IF S = {} THEN <<>>
    ELSE LET x == CHOOSE r \in S : \A q \in S : q.num_services <= r.num_services
         IN  <<x>> \o OrderDesc(S \ {x})

\* row_number() in place of rank(): peers get distinct numbers
rank_rowNumber(ordered, i) == i

\* rank() of the i-th row of an ordered partition: the position of its
\* first peer
rank(ordered, i) ==
    CHOOSE j \in 1..i :
        /\ ordered[j].num_services = ordered[i].num_services
        /\ \A k \in 1..(j - 1) : ordered[k].num_services # ordered[i].num_services

\* the inner SELECT: rows of the period, each with its rank in its month
Ranked(s, start, end) ==
    UNION { LET part == OrderDesc({r \in SpmRows(s) : r.month = m})
            IN  {[month |-> m, station |-> part[i].station, rank |-> rank(part, i)] :
                    i \in 1..Len(part)}
          : m \in {x \in Months : start <= x /\ x <= end} }

\* strftime(make_date(2023, month, 1), '%B')
month_name(m) ==
    << "January", "February", "March", "April", "May", "June", "July",
       "August", "September", "October", "November", "December" >>[m]

\* the outer SELECT: WHERE rank <= n GROUP BY ALL, array_agg(station).
\* The order inside an array is the engine's; the array is a set here.
top_n_rows(s, n, start, end) ==
    LET kept == {r \in Ranked(s, start, end) : r.rank <= n}
    IN  {[month |-> m, month_name |-> month_name(m),
          top_stations |-> {r.station : r \in {q \in kept : q.month = m}}] :
            m \in {r.month : r \in kept}}

NoTop == [n |-> 0, start |-> 0, end |-> 0, done |-> FALSE, rows |-> {}]

IdleRank == spm = <<>> /\ top = NoTop

InitRank ==
    /\ spm \in [Months -> [Stations -> 0..MaxCount]]
    /\ top = NoTop

\* one evaluation of the query over the contents drawn
TopN ==
    /\ ~top.done
    /\ \E n \in 0..(MaxStation - 1), start \in 1..MaxMonth, end \in 0..MaxMonth :
          top' = [n |-> n, start |-> start, end |-> end, done |-> TRUE,
                  rows |-> top_n_rows(spm, n, start, end)]
    /\ UNCHANGED spm

----------------------------------------------------------------------------
(* The specifications.                                                     *)

Init == InitSession /\ IdleTable /\ IdleRank

Next ==
    \/ Construct /\ UNCHANGED <<tableVars, rankVars>>
    \/ CreateTbl /\ UNCHANGED <<tableVars, rankVars>>
    \/ CallBusiest /\ UNCHANGED <<tableVars, rankVars>>
    \/ CallTopN /\ UNCHANGED <<tableVars, rankVars>>
    \/ CallStations /\ UNCHANGED <<tableVars, rankVars>>
    \/ CallDistances /\ UNCHANGED <<tableVars, rankVars>>
    \/ CallStationPairs /\ UNCHANGED <<tableVars, rankVars>>
    \/ analyze /\ UNCHANGED <<tableVars, rankVars>>

Spec == Init /\ [][Next]_vars

InitT == IdleSession /\ InitTable /\ IdleRank

NextT ==
    \/ TM_with_column /\ UNCHANGED <<sessVars, rankVars>>
    \/ TM_with_rows /\ UNCHANGED <<sessVars, rankVars>>
    \/ TM_build /\ UNCHANGED <<sessVars, rankVars>>

SpecTable == InitT /\ [][NextT]_vars

InitR == IdleSession /\ IdleTable /\ InitRank

NextR == TopN /\ UNCHANGED <<sessVars, tableVars>>

SpecRank == InitR /\ [][NextR]_vars

----------------------------------------------------------------------------
(* The claims.                                                             *)

ReportMethods ==
    {"get_busiest_by_month", "get_top_n_stations_in_period", "get_stations",
     "get_distances", "get_station_pairs"}

\* a report call whose query text was sent to the engine
ReportSent == call.method \in ReportMethods /\ call.text # <<>>

\* the report body the last call composed its query from
ReportBody ==
    CASE call.method = "get_busiest_by_month" -> busiest_body
      [] call.method = "get_top_n_stations_in_period" -> top_n_body
      [] call.method = "get_stations" -> stations_body
      [] call.method = "get_distances" -> distances_body
      [] call.method = "get_station_pairs" ->
            station_pairs_qry("local", call.text[Len(call.text) - 1].s)

\* WITH T AS (B), B the registered defining query of T
Prelude(T) ==
    <<Sql("WITH"), Ident(T), Sql("AS (")>> \o subqueries(mode)[T] \o <<Sql(")")>>

\* C1: in remote mode every logical table that the query text of a report
\* reads, in the report body or inside a CTE body, is defined in the same
\* text by a WITH prelude.
C1_RemoteTablesDefined ==
    (mode = "remote" /\ ReportSent) => Refs(call.text) \subseteq CteDefined(call.text)

\* C2: for every table T a report body Q requires, the composed query is Q
\* itself in local mode and exactly WITH T AS (B) followed by Q in remote
\* mode, B being the registered defining query of T.
C2_ComposedQuery ==
    ReportSent =>
        \A T \in Refs(ReportBody) :
            IF mode = "local" THEN call.text = ReportBody
            ELSE call.text = Prelude(T) \o ReportBody

\* C3: when the engine answers a report query with zero rows the method
\* raises ErrNoResults and constructs no TableMaker; no report returns a
\* table without rows.
C3_EmptyResultRaises ==
    /\ (call.method \in ReportMethods /\ call.answered /\ call.rows = <<>>)
          => (call.exc = "ErrNoResults" /\ call.tm = NoTM /\ call.ret = NoTable)
    /\ (call.method \in ReportMethods /\ call.ret # NoTable)
          => Len(call.ret.rows) > 0

C3_Witness ==
    /\ call.method = "get_station_pairs" /\ mode = "local"
    /\ call.answered /\ call.rows = <<>> /\ call.exc = "ErrNoResults"

\* C4: a with_rows call that raises the mismatch error leaves the stored
\* row list as it was before the call.
C4_FailedWithRowsKeepsNothing ==
    (tlast.op = "with_rows" /\ tlast.exc # "none") => tm.rows = tlast.before

\* C5: every row of a built table has as many cells as the table has
\* columns (the table as build() first returned it).
C5_BuiltRowsMatchColumns ==
    returned # NoTable =>
        \A i \in 1..Len(returned.rows) : Len(returned.rows[i]) = Len(returned.columns)

\* C6: once build() has returned, nothing done with the builder alters the
\* table it returned.
C6_BuilderSingleUse ==
    returned # NoTable => tm.table = returned

\* C7: a session that has ended, normally or by an exception, has closed
\* its connection.
C7_ConnectionReleased ==
    pc \in {"done", "failed"} => con = "closed"

BaseTables    == {SVCS_TBL_NAME, STAT_TBL_NAME, DIST_TBL_NAME}
DerivedTables == {SVCS_BY_MONTH_TBL_NAME, DIST_LNG_TBL_NAME}

IssuedBefore(i) == {issued[j] : j \in 1..(i - 1)}

\* one CREATE TABLE per table, and all five before any report query
C8_OncePerTable ==
    /\ \A i \in 1..Len(issued) : issued[i] \notin IssuedBefore(i)
    /\ (mode = "local" /\ (pc \in {"ready", "done"} \/ call.method \in ReportMethods))
          => (Len(issued) = 5 /\ Range(issued) = LogicalTables)

\* C8 as stated: one CREATE TABLE per table, all before any report, and
\* every base table created before any derived table.
C8_BaseBeforeDerived ==
    /\ C8_OncePerTable
    /\ \A i \in 1..Len(issued) :
          issued[i] \in DerivedTables => BaseTables \subseteq IssuedBefore(i)

\* C8 amended: one CREATE TABLE per table, all before any report, and every
\* table that a defining query reads by name is created before the table
\* that query defines.
C8_DependencyOrder ==
    /\ C8_OncePerTable
    /\ \A i \in 1..Len(issued) :
          /\ Refs(subqueries(mode)[issued[i]]) \subseteq IssuedBefore(i)
          /\ IssuedBefore(i) \subseteq Range(created)

C8_Witness ==
    /\ mode = "local" /\ pc = "ready" /\ call.method = "create_tbl"
    /\ created = load_local_data

\* station st is listed for month m by the last top-n query
InTop(m, st) == \E r \in top.rows : r.month = m /\ st \in r.top_stations

\* C9: a station is listed for month m exactly when m is in the period, the
\* station has services in m, and fewer than n stations of m have strictly
\* more services.
C9_TopNByCompetitionRank ==
    top.done =>
        \A m \in Months, st \in Stations :
            InTop(m, st) <=>
                /\ top.start <= m /\ m <= top.end
                /\ spm[m][st] > 0
                /\ Cardinality({o \in Stations : spm[m][o] > spm[m][st]}) < top.n

\* three stations tied at rank 1 with n = 2: all three are listed
C9_Witness ==
    /\ top.done /\ top.n = 2
    /\ \E m \in Months :
          /\ \A st \in 1..3 : spm[m][st] = MaxCount /\ InTop(m, st)

\* C10: no argument of the caller is interpolated into the text of a
\* report query.
C10_ArgsOnlyBound ==
    call.method \in ReportMethods =>
        \A i \in 1..Len(call.text) : call.text[i].o \in {"sql", "config", "file"}

====
